---- MODULE Spec2Model ----
(***************************************************************************)
(* A model of the password generator of src/main.py: the ingredient        *)
(* classifier, the complexity scorer, the candidate mixer (QuantumChef)     *)
(* and the generation loop of main_flow.                                   *)
(*                                                                         *)
(* A Python str is a sequence of one-character strings: "ab1" is           *)
(* <<"a", "b", "1">> and "" is <<>>.                                       *)
(***************************************************************************)
EXTENDS Integers, Sequences, FiniteSets, TLC

VARIABLES
    ingredients,   \* the dictionary read from the file (main.py:257)
    components,    \* QuantumChef.components (main.py:102)
    combo_brew,    \* QuantumChef.combo_brew, the deque of candidates (main.py:103)
    password,      \* the candidate bake_password is working on
    passwords,     \* main_flow's list of accepted passwords (main.py:274)
    total,         \* oven.total, the requested count (main.py:266, 271)
    pc,            \* the position of the program
    error,         \* the exception that ended the run, "none" while it runs
    signal_k,      \* -1, or len(passwords) when KeyboardInterrupt first arrived
    saved          \* what main_flow wrote to quantum_passwords.txt (main.py:292)

vars == <<ingredients, components, combo_brew, password, passwords, total, pc,
          error, signal_k, saved>>

-----------------------------------------------------------------------------
(* Characters and the str methods the program uses.                        *)

LowerSeq == <<"a","b","c","d","e","f","g","h","i","j","k","l","m",
              "n","o","p","q","r","s","t","u","v","w","x","y","z">>
UpperSeq == <<"A","B","C","D","E","F","G","H","I","J","K","L","M",
              "N","O","P","Q","R","S","T","U","V","W","X","Y","Z">>
LowerChars == {LowerSeq[i] : i \in DOMAIN LowerSeq}
UpperChars == {UpperSeq[i] : i \in DOMAIN UpperSeq}
DigitChars == {"0","1","2","3","4","5","6","7","8","9"}

IsAlphaChar(c) == c \in LowerChars \cup UpperChars
IsDigitChar(c) == c \in DigitChars
IsAlnumChar(c) == IsAlphaChar(c) \/ IsDigitChar(c)
IsUpperChar(c) == c \in UpperChars

IndexIn(seq, c) == CHOOSE i \in DOMAIN seq : seq[i] = c
UpperChar(c) == IF c \in LowerChars THEN UpperSeq[IndexIn(LowerSeq, c)] ELSE c
LowerChar(c) == IF c \in UpperChars THEN LowerSeq[IndexIn(UpperSeq, c)] ELSE c

\* str.isalpha, str.isdigit, str.isalnum: all three are False on "".
IsAlpha(s) == Len(s) > 0 /\ \A i \in DOMAIN s : IsAlphaChar(s[i])
IsDigit(s) == Len(s) > 0 /\ \A i \in DOMAIN s : IsDigitChar(s[i])
IsAlnum(s) == Len(s) > 0 /\ \A i \in DOMAIN s : IsAlnumChar(s[i])

Upper(s) == [i \in DOMAIN s |-> UpperChar(s[i])]
Lower(s) == [i \in DOMAIN s |-> LowerChar(s[i])]
\* str.title: a letter that follows a letter is lowered, any other is raised.
Title(s) == [i \in DOMAIN s |->
               IF i > 1 /\ IsAlphaChar(s[i - 1]) THEN LowerChar(s[i])
                                                ELSE UpperChar(s[i])]

\* p in s
Contains(s, p) ==
    \E i \in 0..(Len(s) - Len(p)) : \A j \in 1..Len(p) : s[i + j] = p[j]

\* sep.join(parts)
RECURSIVE Join(_, _)
Join(parts, sep) ==
    IF Len(parts) = 0 THEN <<>>
    ELSE IF Len(parts) = 1 THEN parts[1]
    ELSE parts[1] \o sep \o Join(Tail(parts), sep)

Range(f) == {f[i] : i \in DOMAIN f}
Min(a, b) == IF a < b THEN a ELSE b

-----------------------------------------------------------------------------
(* SemanticAnalyzer                                                        *)

common_patterns ==
    << <<"1","2","3">>,
       <<"q","w","e","r","t","y">>,
       <<"p","a","s","s","w","o","r","d">>,
       <<"a","d","m","i","n">>,
       <<"w","e","l","c","o","m","e">>,
       <<"1","1","1">>,
       <<"a","b","c">> >>

IsCommonPattern(pw) ==
    LET pw_lower == Lower(pw)
    IN  \E k \in DOMAIN common_patterns : Contains(pw_lower, common_patterns[k])

\* calculate_complexity is a sum of floats:
\*   min(n/15, 1.0) + distinct/n + 0.2*upper + 0.2*special + 0.3*nopattern.
\* ComplexityTimes30n is that sum times 30*n, an integer; no string scores 0.6
\* exactly and the sum is an exact multiple of 1/(30*n), so comparing the
\* integers decides the float comparison of main.py:278.
LENGTH_CAP == 15

\* The score without the 0.3 of a string that holds no common pattern.
ComplexityTimes30n_NoBonus(pw) ==
    LET n         == Len(pw)
        length    == Min(2 * n * n, 2 * LENGTH_CAP * n)
        diversity == 30 * Cardinality(Range(pw))
        upper     == IF \E i \in DOMAIN pw : IsUpperChar(pw[i]) THEN 6 * n ELSE 0
        special   == IF \E i \in DOMAIN pw : ~IsAlnumChar(pw[i]) THEN 6 * n ELSE 0
    IN  length + diversity + upper + special

ComplexityTimes30n(pw) ==
    LET n         == Len(pw)
        length    == Min(2 * n * n, 2 * LENGTH_CAP * n)
        diversity == 30 * Cardinality(Range(pw))
        upper     == IF \E i \in DOMAIN pw : IsUpperChar(pw[i]) THEN 6 * n ELSE 0
        special   == IF \E i \in DOMAIN pw : ~IsAlnumChar(pw[i]) THEN 6 * n ELSE 0
        pattern   == IF IsCommonPattern(pw) THEN 0 ELSE 9 * n
    IN  length + diversity + upper + special + pattern

\* len(set(password)) / len(password) divides by zero on "".
ComplexityRaises(pw) == Len(pw) = 0

\* calculate_complexity(pwd) > 0.6
ScoreAboveThreshold(pw) == ComplexityTimes30n(pw) > 18 * Len(pw)

-----------------------------------------------------------------------------
(* Bounds of the model.                                                    *)

\* A refill is followed while at most MaxBrew of its samples are memorable.
MaxBrew == 2
\* The dictionaries given to the classifier alone have at most MaxListLen
\* entries of at most MaxTokenLen characters.
MaxListLen == 2
MaxTokenLen == 2
\* The strings given to the scorer alone: every string of at most MaxShort
\* characters, and strings of few distinct characters up to MaxRamp characters.
MaxShort == 4
MaxRamp == 16
\* The repair loop is followed while the password has at most MaxPwLen characters.
MaxPwLen == 6

-----------------------------------------------------------------------------
(* QuantumChef: classification, mixing, formatting, spice.                 *)

NotAlnum(x) == ~IsAlnum(x)

\* The classifier with 'not x.isalpha()' for 'not x.isalnum()'.
NotAlpha(x) == ~IsAlpha(x)
OrganizeIngredients_NotAlpha(items) ==
    [words    |-> SelectSeq(items, IsAlpha),
     numbers  |-> SelectSeq(items, IsDigit),
     specials |-> SelectSeq(items, NotAlpha)]

OrganizeIngredients(items) ==
    [words    |-> SelectSeq(items, IsAlpha),
     numbers  |-> SelectSeq(items, IsDigit),
     specials |-> SelectSeq(items, NotAlnum)]

NoComponents == [words |-> <<>>, numbers |-> <<>>, specials |-> <<>>]

MAX_COMPONENTS == 4
TRIES_PER_COMPONENT == 5

\* elements of _create_quantum_mix
Elements(comp) == comp.words \o comp.words \o comp.numbers \o comp.specials

\* The range with its endpoint included.
MixLengths_Inclusive(elements) == 2..Min(MAX_COMPONENTS, Len(elements))

\* range(2, min(self.MAX_COMPONENTS, len(elements)))
MixLengths(elements) == 2..(Min(MAX_COMPONENTS, Len(elements)) - 1)

GetType(item) ==
    IF IsDigit(item) THEN "num"
    ELSE IF ~IsAlnum(item) THEN "spec"
    ELSE "word"

IsMemorable(combo) ==
    LET type_seq == [i \in DOMAIN combo |-> GetType(combo[i])]
    IN  ~ \E i \in 1..(Len(type_seq) - 1) : type_seq[i] = type_seq[i + 1]

\* What rng.sample(elements, mix_length) can return: mix_length elements at
\* distinct positions of the pool, in any order.
Samples(elements, mix_length) ==
    {[i \in 1..mix_length |-> elements[f[i]]] :
        f \in {g \in [1..mix_length -> DOMAIN elements] :
                  \A i, j \in 1..mix_length : i # j => g[i] # g[j]}}

\* What _cook_combo can return: one of the five transforms.
CookCombo(combo) ==
    LET joined == Join(combo, <<>>)
    IN  {Title(joined), Upper(joined),
         Join(combo, <<"-">>), Join(combo, <<"_">>), Join(combo, <<>>)}

\* What the 5 * mix_length tries of one mix_length can append, in order: each
\* try appends the cooked sample if the sample is memorable, nothing otherwise.
\* `room` is how many more candidates the model follows in this refill.
Batch(elements, mix_length, room) ==
    LET tries    == TRIES_PER_COMPONENT * mix_length
        all      == Samples(elements, mix_length)
        cooked   == UNION {CookCombo(c) : c \in {x \in all : IsMemorable(x)}}
        rejects  == \E c \in all : ~IsMemorable(c)
        lengths  == {n \in 0..Min(tries, room) : n = tries \/ rejects}
    IN  UNION {[1..n -> cooked] : n \in lengths}

\* What _create_quantum_mix can append to the buffer: the batches of the mix
\* lengths from `from` on, in increasing order.
RECURSIVE MixFrom(_, _, _)
MixFrom(elements, from, room) ==
    IF from \notin MixLengths(elements) THEN {<<>>}
    ELSE UNION {{b \o rest : rest \in MixFrom(elements, from + 1, room - Len(b))} :
                   b \in Batch(elements, from, room)}

CreateQuantumMix(comp) == MixFrom(Elements(comp), 2, MaxBrew)

SPICE_PREFIXES == {"!", "@", "#"}
SPICE_SEPARATORS == {"-", "_", "~"}
SpiceOptions == 0..3

\* The outcomes of enhancement `option` of _add_quantum_spice: a new string,
\* or the IndexError of rng.choice on an empty list.
SpiceOption(option, comp, s) ==
    LET half == Len(s) \div 2
    IN  CASE option = 0 ->
               IF comp.numbers = <<>>
               THEN {[raises |-> TRUE, value |-> s]}
               ELSE {[raises |-> FALSE, value |-> s \o comp.numbers[i]] :
                        i \in DOMAIN comp.numbers}
          [] option = 1 ->
               {[raises |-> FALSE, value |-> <<c>> \o s] : c \in SPICE_PREFIXES}
          [] option = 2 ->
               {[raises |-> FALSE,
                 value |-> SubSeq(s, 1, half) \o <<c>> \o SubSeq(s, half + 1, Len(s))] :
                    c \in SPICE_SEPARATORS}
          [] OTHER ->
               {[raises |-> FALSE, value |-> s]}

AddQuantumSpice(comp, s) == UNION {SpiceOption(o, comp, s) : o \in SpiceOptions}

\* AIPasswordOptimizer: kneighbors asks for N_NEIGHBORS neighbours and fails,
\* inside the try of suggest_variations, when the dictionary is smaller; the
\* model is never fitted when the dictionary has fewer than 2 entries. Which
\* entries are nearest is not modelled: any entry may be among the five.
N_NEIGHBORS == 5
SuggestVariations(dictionary) ==
    IF Len(dictionary) < N_NEIGHBORS THEN {} ELSE Range(dictionary)

\* TfidfVectorizer(analyzer='char', ngram_range=(2, 4)).fit_transform raises
\* (empty vocabulary) when no entry has two characters.
MIN_NGRAM == 2
TrainRaises(dictionary) ==
    Len(dictionary) >= 2 /\ \A i \in DOMAIN dictionary : Len(dictionary[i]) < MIN_NGRAM

-----------------------------------------------------------------------------
(* The program's steps.  pc is                                             *)
(*   "init"        main_flow before QuantumChef(ingredients)  (main.py:270) *)
(*   "ready"       at the loop test, or between two calls of bake_password  *)
(*   "bake"        bake_password entered                      (main.py:179) *)
(*   "pop"         before combo_brew.popleft()                (main.py:182) *)
(*   "spice"       before _add_quantum_spice(base)            (main.py:183) *)
(*   "suggest"     in suggest_variations                      (main.py:168) *)
(*   "repair"      at the test of the repair loop             (main.py:172) *)
(*   "returned"    bake_password has returned                 (main.py:277) *)
(*   "done"        the loop ended by its test, passwords written (line 292) *)
(*   "interrupted" KeyboardInterrupt caught, passwords written   (line 292) *)
(*   "crashed"     an exception left main_flow                (main.py:319) *)

Raise(exception) ==
    /\ pc' = "crashed"
    /\ error' = exception

\* QuantumChef.__init__
Construct ==
    /\ pc = "init"
    /\ components' = OrganizeIngredients(ingredients)
    /\ combo_brew' = <<>>
    /\ IF TrainRaises(ingredients)
       THEN Raise("ValueError: empty vocabulary")
       ELSE pc' = "ready" /\ error' = error
    /\ UNCHANGED <<ingredients, password, passwords, total, signal_k, saved>>

\* bake_password, lines 179-180: if not self.combo_brew: self._create_quantum_mix()
Bake ==
    /\ pc = "bake"
    /\ combo_brew' \in IF combo_brew = <<>> THEN CreateQuantumMix(components)
                                           ELSE {combo_brew}
    /\ pc' = "pop"
    /\ UNCHANGED <<ingredients, components, password, passwords, total, error,
                   signal_k, saved>>

\* base = self.combo_brew.popleft()
Pop ==
    /\ pc = "pop"
    /\ IF combo_brew = <<>>
       THEN /\ Raise("IndexError: pop from an empty deque")
            /\ UNCHANGED <<combo_brew, password>>
       ELSE /\ password' = Head(combo_brew)
            /\ combo_brew' = Tail(combo_brew)
            /\ pc' = "spice"
            /\ error' = error
    /\ UNCHANGED <<ingredients, components, passwords, total, signal_k, saved>>

\* enhanced = self._add_quantum_spice(base)
Spice ==
    /\ pc = "spice"
    /\ \E o \in AddQuantumSpice(components, password) :
          IF o.raises
          THEN Raise("IndexError: Cannot choose from an empty sequence")
               /\ UNCHANGED password
          ELSE password' = o.value /\ pc' = "suggest" /\ error' = error
    /\ UNCHANGED <<ingredients, components, combo_brew, passwords, total, signal_k,
                   saved>>

\* _ai_enhance, lines 168-170: password = choice([password] + variations)
Suggest ==
    /\ pc = "suggest"
    /\ password' \in {password} \cup SuggestVariations(ingredients)
    /\ pc' = "repair"
    /\ UNCHANGED <<ingredients, components, combo_brew, passwords, total, error,
                   signal_k, saved>>

\* _ai_enhance, line 172, the pattern check passes: return password.
RepairExit ==
    /\ pc = "repair"
    /\ ~IsCommonPattern(password)
    /\ pc' = "returned"
    /\ UNCHANGED <<ingredients, components, combo_brew, password, passwords, total,
                   error, signal_k, saved>>

\* _ai_enhance, lines 172-173, one iteration of the repair loop with
\* enhancement `option`.
RepairStep(option) ==
    /\ pc = "repair"
    /\ IsCommonPattern(password)
    /\ \E o \in SpiceOption(option, components, password) :
          IF o.raises
          THEN Raise("IndexError: Cannot choose from an empty sequence")
               /\ UNCHANGED password
          ELSE /\ Len(o.value) <= MaxPwLen
               /\ password' = o.value /\ pc' = "repair" /\ error' = error
    /\ UNCHANGED <<ingredients, components, combo_brew, passwords, total, signal_k,
                   saved>>

Repair == \E option \in SpiceOptions : RepairStep(option)

\* The loop test with <= for <.
LoopContinues_OffByOne == Len(passwords) <= total

\* while len(passwords) < oven.total
LoopContinues == Len(passwords) < total

\* The loop test; when it fails main_flow writes the passwords (lines
\* 289-292) and returns, and its chef is gone. pwd of the iteration before is
\* not read again.
LoopTest ==
    /\ pc = "ready"
    /\ IF LoopContinues
       THEN pc' = "bake" /\ saved' = saved /\ combo_brew' = combo_brew
       ELSE pc' = "done" /\ saved' = passwords /\ combo_brew' = <<>>
    /\ password' = <<>>
    /\ UNCHANGED <<ingredients, components, passwords, total, error, signal_k>>

\* if chef.semantic.calculate_complexity(pwd) > 0.6: passwords.append(pwd)
Score ==
    /\ pc = "returned"
    /\ IF ComplexityRaises(password)
       THEN Raise("ZeroDivisionError: division by zero") /\ UNCHANGED passwords
       ELSE /\ passwords' = IF ScoreAboveThreshold(password)
                            THEN Append(passwords, password)
                            ELSE passwords
            /\ pc' = "ready"
            /\ error' = error
    /\ UNCHANGED <<ingredients, components, combo_brew, password, total, signal_k,
                   saved>>

\* The positions inside the try block of main_flow (lines 275-285).
TryBlock == {"ready", "bake", "pop", "spice", "suggest", "repair", "returned"}

\* KeyboardInterrupt arrives. Inside the try of suggest_variations the bare
\* except of line 75 catches it and returns [], and _ai_enhance goes on with
\* the password unchanged; anywhere else it reaches the except of line 286,
\* main_flow writes the passwords (lines 289-292) and returns, and its chef is
\* gone.
Interrupt ==
    /\ pc \in TryBlock
    /\ signal_k' = IF signal_k = -1 THEN Len(passwords) ELSE signal_k
    /\ \E caught \in IF pc = "suggest" THEN {"line 75", "line 286"} ELSE {"line 286"} :
          IF caught = "line 75"
          THEN /\ pc' = "repair"
               /\ UNCHANGED <<saved, combo_brew, password>>
          ELSE /\ pc' = "interrupted"
               /\ saved' = passwords
               /\ combo_brew' = <<>>
               /\ password' = <<>>
    /\ UNCHANGED <<ingredients, components, passwords, total, error>>

\* A caller of the chef alone: it calls bake_password again and again.
ClientCall ==
    /\ pc = "ready"
    /\ pc' = "bake"
    /\ UNCHANGED <<ingredients, components, combo_brew, password, passwords, total,
                   error, signal_k, saved>>

\* The caller takes the password bake_password returned.
ClientReturn ==
    /\ pc = "returned"
    /\ pc' = "ready"
    /\ password' = <<>>
    /\ UNCHANGED <<ingredients, components, combo_brew, passwords, total, error,
                   signal_k, saved>>

-----------------------------------------------------------------------------
(* Specifications.                                                          *)

InitWith(dictionaries, counts) ==
    /\ ingredients \in dictionaries
    /\ total \in counts
    /\ components = NoComponents
    /\ combo_brew = <<>>
    /\ password = <<>>
    /\ passwords = <<>>
    /\ pc = "init"
    /\ error = "none"
    /\ signal_k = -1
    /\ saved = <<>>

\* The generation loop of main_flow on a small dictionary.
LoopDictionaries == { << <<"A">>, <<"1","1">> >> }
Counts == {1, 2}

Init == InitWith(LoopDictionaries, Counts)

Next ==
    \/ Construct
    \/ LoopTest
    \/ Bake
    \/ Pop
    \/ Spice
    \/ Suggest
    \/ RepairExit
    \/ Repair
    \/ Score
    \/ Interrupt

Spec == Init /\ [][Next]_vars

\* The chef alone, called again and again, on dictionaries of every shape:
\* words and numbers (a pool of four), words only, a pool of two, a word that
\* is a common pattern and no number, and no entry of any category.
ChefDictionaries ==
    { << <<"A">>, <<"1","2">>, <<"1","2">> >>,
      << <<"a","b">>, <<"c","d">> >>,
      << <<"1","2">>, <<"!","!">> >>,
      << <<"a","b","c">>, <<"!">> >>,
      << <<"a","1">>, <<"b","2">> >> }

InitChef == InitWith(ChefDictionaries, {0})

NextChef ==
    \/ Construct
    \/ ClientCall
    \/ Bake
    \/ Pop
    \/ Spice
    \/ Suggest
    \/ RepairExit
    \/ Repair
    \/ ClientReturn

SpecChef == InitChef /\ [][NextChef]_vars

\* The generation loop on a dictionary with a word, a number and a special,
\* and on a dictionary of five entries, one of them a blank line and one a
\* mixed token that holds a common pattern.
FaultDictionaries ==
    { << <<"a","b">>, <<"7">>, <<"!">> >>,
      << <<"1","2">>, <<>>, <<"!">>, <<"1","1","1","a">>, <<"a","1">> >> }

InitFaults == InitWith(FaultDictionaries, {1})

SpecFaults == InitFaults /\ [][Next]_vars

\* The chef alone on a dictionary whose word is a common pattern and that has
\* no number. The program keeps running, and the random choice of the repair
\* loop picks each of the four enhancements again and again.
RepairDictionaries == { << <<"a","b","c">>, <<"!">> >> }

InitRepair == InitWith(RepairDictionaries, {0})

SpecRepair ==
    /\ InitRepair
    /\ [][NextChef]_vars
    /\ WF_vars(NextChef)
    /\ SF_vars(RepairStep(0))
    /\ SF_vars(RepairStep(1))
    /\ SF_vars(RepairStep(2))
    /\ SF_vars(RepairStep(3))

\* The classifier alone: the constructor on every small dictionary.
TokenChars == {"a", "1", "!"}
Tokens == UNION {[1..n -> TokenChars] : n \in 0..MaxTokenLen}
TokenLists == UNION {[1..n -> Tokens] : n \in 1..MaxListLen}

InitClassify == InitWith(TokenLists, {1})

NextClassify == Construct

SpecClassify == InitClassify /\ [][NextClassify]_vars

\* The scorer alone: the scoring step of the loop on every small string.
ScoreChars == {"a", "A", "1", "!"}
RampChars == <<"x", "k", "z">>
Ramp(n, d) == [i \in 1..n |-> RampChars[Min(i, d)]]
ScoreInputs ==
    UNION {[1..n -> ScoreChars] : n \in 0..MaxShort}
    \cup {Ramp(n, d) : n \in 1..MaxRamp, d \in DOMAIN RampChars}

InitScore ==
    /\ ingredients = <<>>
    /\ total = 1
    /\ components = NoComponents
    /\ combo_brew = <<>>
    /\ password \in ScoreInputs
    /\ passwords = <<>>
    /\ pc = "returned"
    /\ error = "none"
    /\ signal_k = -1
    /\ saved = <<>>

NextScore == Score

SpecScore == InitScore /\ [][NextScore]_vars

-----------------------------------------------------------------------------
(* The claims.                                                             *)

HasWords == components.words # <<>>
HasNumbers == components.numbers # <<>>
HasSpecials == components.specials # <<>>
Crashed(exception) == pc = "crashed" /\ error = exception
AdjacentTypesDiffer(combo) ==
    \A j \in 1..(Len(combo) - 1) : GetType(combo[j]) # GetType(combo[j + 1])

\* C1: in every state of the generation loop the list of accepted passwords
\* holds at most the requested count, every string in it scores above 0.6,
\* and when the loop ends by its test the list, which is what is written,
\* holds exactly the requested count.
C1_LoopInvariant ==
    /\ Len(passwords) <= total
    /\ \A i \in DOMAIN passwords :
          /\ passwords[i] # <<>>
          /\ ComplexityTimes30n(passwords[i]) > 18 * Len(passwords[i])
    /\ pc = "done" => Len(passwords) = total /\ saved = passwords

C1_Witness ==
    pc = "done" /\ total = 2 /\ Len(passwords) = 2 /\ signal_k = -1

\* C2: on a dictionary with words, numbers and specials no execution of the
\* generation loop ends in an error, and the loop that ends by its test has
\* written exactly the requested number of strings, each scoring above 0.6.
C2_Claim ==
    (HasWords /\ HasNumbers /\ HasSpecials) =>
        /\ pc # "crashed"
        /\ pc = "done" =>
              /\ Len(saved) = total
              /\ \A i \in DOMAIN saved : ScoreAboveThreshold(saved[i])

\* C3: once KeyboardInterrupt has arrived in the generation loop with k
\* passwords accepted, the loop has ended without raising and the result is
\* exactly those k passwords.
C3_Claim ==
    signal_k >= 0 =>
        /\ pc = "interrupted"
        /\ Len(passwords) = signal_k
        /\ saved = passwords

\* C4: the pop of bake_password fails only if all three categories are empty;
\* with a category that is not empty the buffer holds a candidate after the
\* refill.
C4_Claim ==
    /\ Crashed("IndexError: pop from an empty deque") =>
          ~HasWords /\ ~HasNumbers /\ ~HasSpecials
    /\ (pc = "pop" /\ (HasWords \/ HasNumbers \/ HasSpecials)) => combo_brew # <<>>

\* C5: with one or two of the categories empty, neither the spice
\* augmentation nor the repair loop raises.
C5_Claim ==
    (HasWords \/ HasNumbers \/ HasSpecials) =>
        ~Crashed("IndexError: Cannot choose from an empty sequence")

\* C6 as stated: the three collections are pairwise disjoint, words are
\* purely alphabetic, numbers purely numeric, specials hold no alphanumeric
\* character, and a token that mixes letters with digits or alphanumerics
\* with symbols is in none of the three.
HasLetter(x) == \E i \in DOMAIN x : IsAlphaChar(x[i])
HasDigit(x) == \E i \in DOMAIN x : IsDigitChar(x[i])
HasSymbol(x) == \E i \in DOMAIN x : ~IsAlnumChar(x[i])
PairwiseDisjoint(W, N, S) == W \cap N = {} /\ W \cap S = {} /\ N \cap S = {}

C6_Claim ==
    LET W == Range(components.words)
        N == Range(components.numbers)
        S == Range(components.specials)
    IN  pc # "init" =>
          /\ PairwiseDisjoint(W, N, S)
          /\ \A x \in W : x # <<>> /\ ~HasDigit(x) /\ ~HasSymbol(x)
          /\ \A x \in N : x # <<>> /\ ~HasLetter(x) /\ ~HasSymbol(x)
          /\ \A x \in S : ~HasLetter(x) /\ ~HasDigit(x)
          /\ \A x \in Range(ingredients) :
                ((HasLetter(x) /\ HasDigit(x)) \/
                 ((HasLetter(x) \/ HasDigit(x)) /\ HasSymbol(x)))
                    => x \notin W \cup N \cup S

\* C6 as amended: the three collections are pairwise disjoint; a token is in
\* words exactly if it is purely alphabetic, in numbers exactly if it is
\* purely numeric, and in specials exactly if it is not entirely
\* alphanumeric (it holds a symbol, or is empty); so a token that mixes
\* letters with digits and holds no symbol is in none, and a token that mixes
\* alphanumerics with symbols is in specials.
C6_Amended ==
    LET W == Range(components.words)
        N == Range(components.numbers)
        S == Range(components.specials)
    IN  pc # "init" =>
          /\ PairwiseDisjoint(W, N, S)
          /\ W \cup N \cup S \subseteq Range(ingredients)
          /\ \A x \in Range(ingredients) :
                /\ x \in W <=> (x # <<>> /\ ~HasDigit(x) /\ ~HasSymbol(x))
                /\ x \in N <=> (x # <<>> /\ ~HasLetter(x) /\ ~HasSymbol(x))
                /\ x \in S <=> (x = <<>> \/ HasSymbol(x))
                /\ (HasLetter(x) /\ HasDigit(x) /\ ~HasSymbol(x))
                      => x \notin W \cup N \cup S

C6_Witness ==
    /\ pc = "ready"
    /\ \E x \in Range(components.specials) : HasLetter(x) /\ HasSymbol(x)
    /\ \E x \in Range(ingredients) :
          HasLetter(x) /\ HasDigit(x)
          /\ x \notin Range(components.words) \cup Range(components.numbers)
                      \cup Range(components.specials)

\* C7: calculate_complexity does not fail on the empty string, also when the
\* empty string is what bake_password returned.
C7_Claim == ~Crashed("ZeroDivisionError: division by zero")

\* C8: every candidate in the buffer was formatted from a sample of k pool
\* elements, 2 <= k < min(4, poolSize), whose adjacent elements differ in
\* type; nothing is in the buffer when the pool has two elements or fewer;
\* and _is_memorable accepts exactly the samples whose adjacent types differ.
C8_BufferInvariant ==
    LET elements == Elements(components)
        poolSize == Len(elements)
    IN  /\ \A i \in DOMAIN combo_brew :
              \E k \in 2..3 :
                  /\ k < poolSize
                  /\ \E combo \in Samples(elements, k) :
                        /\ AdjacentTypesDiffer(combo)
                        /\ combo_brew[i] \in CookCombo(combo)
        /\ poolSize <= 2 => combo_brew = <<>>
        /\ \A k \in 2..Min(4, poolSize) :
              \A combo \in Samples(elements, k) :
                  IsMemorable(combo) <=> AdjacentTypesDiffer(combo)

C8_Witness ==
    /\ pc = "ready"
    /\ Len(combo_brew) > 0
    /\ \E combo \in Samples(Elements(components), 3) :
          IsMemorable(combo) /\ combo_brew[1] \in CookCombo(combo)

\* C9: every call of _ai_enhance that reaches the repair loop returns.
C9_Claim == (pc = "repair") ~> (pc = "returned")

\* C10: a string that is not empty and holds no common pattern scores above
\* 0.6, and the scoring step of the loop accepts it.
C10_NoPatternAccepted ==
    (password # <<>> /\ ~IsCommonPattern(password)) =>
        /\ ComplexityTimes30n(password) > 18 * Len(password)
        /\ pc = "ready" => passwords = <<password>>

C10_Witness ==
    /\ pc = "ready"
    /\ passwords = <<password>>
    /\ Len(password) = 4
    /\ Cardinality(Range(password)) = 1

====
